---- MODULE Spec2Model ----
(***************************************************************************)
(* Airline ticket reservation system (src/airline_reservation.py).         *)
(*                                                                         *)
(* State: the seat map `seats` (5 x 6 cells, "O" available, "X" booked),   *)
(* the passenger list `passengers`, and the bookings file on disk.  One    *)
(* action per menu operation that changes state: book, cancel, save, load. *)
(*                                                                         *)
(* Python strings are modelled as sequences of one-character strings, so   *)
(* that strip, upper, lower, split, isdigit, isalpha, int() and the        *)
(* formatting of numbers are computed character by character as the        *)
(* interpreter computes them.                                              *)
(*                                                                         *)
(* File operations are assumed to succeed (no OSError).                    *)
(***************************************************************************)
EXTENDS Integers, Sequences, FiniteSets, TLC

VARIABLES seats, passengers, file, last, nops

vars == <<seats, passengers, file, last, nops>>

(***************************************************************************)
(* Bounds of the model.                                                    *)
(***************************************************************************)
\* number of menu operations performed in one session
MaxOps == 3

(***************************************************************************)
(* Characters and the str methods the program uses.                        *)
(***************************************************************************)
DigitChars == <<"0", "1", "2", "3", "4", "5", "6", "7", "8", "9">>

UpperChars ==
  <<"A", "B", "C", "D", "E", "F", "G", "H", "I", "J", "K", "L", "M",
    "N", "O", "P", "Q", "R", "S", "T", "U", "V", "W", "X", "Y", "Z">>

LowerChars ==
  <<"a", "b", "c", "d", "e", "f", "g", "h", "i", "j", "k", "l", "m",
    "n", "o", "p", "q", "r", "s", "t", "u", "v", "w", "x", "y", "z">>

Range(s) == {s[i] : i \in DOMAIN s}

IndexOf(s, ch) == CHOOSE i \in DOMAIN s : s[i] = ch

IsSpace(ch) == ch \in {" ", "\t"}

IsDigitChar(ch) == ch \in Range(DigitChars)

IsAlphaChar(ch) == ch \in Range(UpperChars) \cup Range(LowerChars)

UpperChar(ch) ==
  IF ch \in Range(LowerChars) THEN UpperChars[IndexOf(LowerChars, ch)] ELSE ch

LowerChar(ch) ==
  IF ch \in Range(UpperChars) THEN LowerChars[IndexOf(UpperChars, ch)] ELSE ch

\* str.upper()
Upper(s) == [i \in 1..Len(s) |-> UpperChar(s[i])]

\* str.lower()
Lower(s) == [i \in 1..Len(s) |-> LowerChar(s[i])]

RECURSIVE LStrip(_)
LStrip(s) ==
  IF s = <<>> THEN <<>>
  ELSE IF IsSpace(Head(s)) THEN LStrip(Tail(s)) ELSE s

RECURSIVE RStrip(_)
RStrip(s) ==
  IF s = <<>> THEN <<>>
  ELSE IF IsSpace(s[Len(s)]) THEN RStrip(SubSeq(s, 1, Len(s) - 1)) ELSE s

\* str.strip()
Strip(s) == RStrip(LStrip(s))

\* str.isdigit(): false on the empty string
IsDigit(s) == s # <<>> /\ \A i \in 1..Len(s) : IsDigitChar(s[i])

\* str.split(","): the parts between the commas, at least one part
RECURSIVE SplitFrom(_, _, _)
SplitFrom(s, i, cur) ==
  IF i > Len(s) THEN <<cur>>
  ELSE IF s[i] = "," THEN <<cur>> \o SplitFrom(s, i + 1, <<>>)
  ELSE SplitFrom(s, i + 1, Append(cur, s[i]))

Split(s) == SplitFrom(s, 1, <<>>)

\* the value of a string of decimal digits
RECURSIVE DigitsValue(_)
DigitsValue(s) ==
  IF s = <<>> THEN 0
  ELSE 10 * DigitsValue(SubSeq(s, 1, Len(s) - 1))
       + (IndexOf(DigitChars, s[Len(s)]) - 1)

\* str(n) for n >= 0
RECURSIVE NatToStr(_)
NatToStr(n) ==
  IF n < 10 THEN <<DigitChars[n + 1]>>
  ELSE NatToStr(n \div 10) \o <<DigitChars[(n % 10) + 1]>>

\* int(s): surrounding whitespace and one sign are accepted; anything else
\* than decimal digits raises ValueError (ok = FALSE)
ParseInt(s) ==
  LET t == Strip(s)
      signed == t # <<>> /\ Head(t) \in {"+", "-"}
      d == IF signed THEN Tail(t) ELSE t
  IN  IF IsDigit(d)
      THEN [ok |-> TRUE,
            val |-> IF signed /\ Head(t) = "-" THEN 0 - DigitsValue(d)
                    ELSE DigitsValue(d)]
      ELSE [ok |-> FALSE, val |-> 0]

(***************************************************************************)
(* Passenger records and their line format.                                *)
(***************************************************************************)
Passenger(name, seat, flight) ==
  [name |-> name, seat_number |-> seat, flight_code |-> flight]

\* variant: flight code and seat written in the wrong order
to_line_flight_before_seat(p) ==
  p.name \o <<",">> \o p.flight_code \o <<",">> \o p.seat_number

\* Passenger.to_line
to_line(p) == p.name \o <<",">> \o p.seat_number \o <<",">> \o p.flight_code

\* from_line's None: no record (a record has three non-empty fields)
NoPassenger == Passenger(<<>>, <<>>, <<>>)

\* Passenger.from_line
from_line(line) ==
  LET raw == Split(Strip(line))
      parts == [i \in 1..Len(raw) |-> Strip(raw[i])]
  IN  IF Len(parts) # 3 THEN NoPassenger
      ELSE IF parts[1] = <<>> \/ parts[2] = <<>> \/ parts[3] = <<>>
           THEN NoPassenger
      ELSE Passenger(parts[1], parts[2], parts[3])

(***************************************************************************)
(* Seat utilities.                                                         *)
(***************************************************************************)
\* main: seats = init_seats(5, 6)
NumRows == 5
NumCols == 6

RowIdx == 0..(NumRows - 1)
ColIdx == 0..(NumCols - 1)

init_seats == [r \in RowIdx |-> [c \in ColIdx |-> "O"]]

\* Optional[Tuple[int, int]]: None is the empty tuple
None == <<>>

\* seat_to_index: <<row, col>> or None
seat_to_index(seat_in) ==
  LET seat == Upper(Strip(seat_in))
  IN  IF Len(seat) < 2 THEN None
      ELSE LET row_part == SubSeq(seat, 1, Len(seat) - 1)
               col_part == seat[Len(seat)]
           IN  IF ~IsDigit(row_part) THEN None
               ELSE IF ~IsAlphaChar(col_part) THEN None
               ELSE <<DigitsValue(row_part) - 1,
                      IndexOf(UpperChars, col_part) - 1>>

\* index_to_seat
index_to_seat(row, col) == NatToStr(row + 1) \o <<UpperChars[col + 1]>>

\* is_valid_index
is_valid_index(row, col) ==
  0 <= row /\ row < NumRows /\ 0 <= col /\ col < NumCols

\* variant: the booked seats are counted instead of the available ones
RECURSIVE count_booked_instead(_, _, _)
count_booked_instead(s, r, c) ==
  IF r >= NumRows THEN 0
  ELSE IF c >= NumCols THEN count_booked_instead(s, r + 1, 0)
  ELSE (IF s[r][c] = "X" THEN 1 ELSE 0) + count_booked_instead(s, r, c + 1)

\* recursive_count_available
RECURSIVE recursive_count_available(_, _, _)
recursive_count_available(s, r, c) ==
  IF r >= NumRows THEN 0
  ELSE IF c >= NumCols THEN recursive_count_available(s, r + 1, 0)
  ELSE (IF s[r][c] = "O" THEN 1 ELSE 0)
       + recursive_count_available(s, r, c + 1)

\* variant: the scan goes down each column before moving to the next one
RECURSIVE find_first_available_by_column(_, _, _)
find_first_available_by_column(s, r, c) ==
  IF c >= NumCols THEN None
  ELSE IF r >= NumRows THEN find_first_available_by_column(s, 0, c + 1)
  ELSE IF s[r][c] = "O" THEN <<r, c>>
  ELSE find_first_available_by_column(s, r + 1, c)

\* recursive_find_first_available: <<row, col>> or None
RECURSIVE recursive_find_first_available(_, _, _)
recursive_find_first_available(s, r, c) ==
  IF r >= NumRows THEN None
  ELSE IF c >= NumCols THEN recursive_find_first_available(s, r + 1, 0)
  ELSE IF s[r][c] = "O" THEN <<r, c>>
  ELSE recursive_find_first_available(s, r, c + 1)

(***************************************************************************)
(* Booking operations.                                                     *)
(***************************************************************************)
\* key in name: the key occurs in the name at some position
Contains(name, key) ==
  \E i \in 0..(Len(name) - Len(key)) : SubSeq(name, i + 1, i + Len(key)) = key

\* variant: the names are matched as search_passengers matches them, by
\* substring
RECURSIVE MatchesBySubstringFrom(_, _, _)
MatchesBySubstringFrom(ps, key, i) ==
  IF i > Len(ps) THEN <<>>
  ELSE (IF Contains(Lower(Strip(ps[i].name)), key) THEN <<i>> ELSE <<>>)
       \o MatchesBySubstringFrom(ps, key, i + 1)

\* the list comprehension of find_passenger_by_exact_name, from index i on
RECURSIVE MatchesFrom(_, _, _)
MatchesFrom(ps, key, i) ==
  IF i > Len(ps) THEN <<>>
  ELSE (IF Lower(Strip(ps[i].name)) = key THEN <<i>> ELSE <<>>)
       \o MatchesFrom(ps, key, i + 1)

find_passenger_by_keyword(ps, name) ==
  MatchesBySubstringFrom(ps, Lower(Strip(name)), 1)

\* find_passenger_by_exact_name: the matching indices (1-based), in order
find_passenger_by_exact_name(ps, name) == MatchesFrom(ps, Lower(Strip(name)), 1)

\* is_seat_taken
is_seat_taken(ps, seat_number) ==
  LET s == Upper(Strip(seat_number))
  IN  \E i \in 1..Len(ps) : Upper(Strip(ps[i].seat_number)) = s

AUTO == <<"A", "U", "T", "O">>

\* variant: the seat is marked and the passenger appended before the
\* "already booked" check
book_ticket_commits_before_conflict_check(s, ps, name_in, flight_in, choice_in) ==
  LET name == Strip(name_in)
      flight_code == Strip(flight_in)
      fail(why) == [result |-> why, seats |-> s, passengers |-> ps]
  IN  IF name = <<>> THEN fail("empty name")
      ELSE IF flight_code = <<>> THEN fail("empty flight code")
      ELSE IF recursive_count_available(s, 0, 0) = 0
           THEN fail("no seats available")
      ELSE
        LET typed == Upper(Strip(choice_in))
            found == recursive_find_first_available(s, 0, 0)
        IN  IF typed = AUTO /\ found = None THEN fail("no seats available")
            ELSE
              LET seat_input == IF typed = AUTO
                                THEN index_to_seat(found[1], found[2])
                                ELSE typed
                  idx == seat_to_index(seat_input)
              IN  IF idx = None THEN fail("invalid seat format")
                  ELSE IF ~is_valid_index(idx[1], idx[2])
                       THEN fail("seat out of range")
                  ELSE [result |-> IF s[idx[1]][idx[2]] = "X"
                                      \/ is_seat_taken(ps, seat_input)
                                   THEN "seat already booked" ELSE "ok",
                        seats |-> [s EXCEPT ![idx[1]][idx[2]] = "X"],
                        passengers |->
                          Append(ps, Passenger(name, seat_input, flight_code))]

\* book_ticket: the outcome of one call with the three answers typed at the
\* prompts; a prompt after an early return is never shown
book_ticket(s, ps, name_in, flight_in, choice_in) ==
  LET name == Strip(name_in)
      flight_code == Strip(flight_in)
      fail(why) == [result |-> why, seats |-> s, passengers |-> ps]
  IN  IF name = <<>> THEN fail("empty name")
      ELSE IF flight_code = <<>> THEN fail("empty flight code")
      ELSE IF recursive_count_available(s, 0, 0) = 0
           THEN fail("no seats available")
      ELSE
        LET typed == Upper(Strip(choice_in))
            found == recursive_find_first_available(s, 0, 0)
        IN  IF typed = AUTO /\ found = None THEN fail("no seats available")
            ELSE
              LET seat_input == IF typed = AUTO
                                THEN index_to_seat(found[1], found[2])
                                ELSE typed
                  idx == seat_to_index(seat_input)
              IN  IF idx = None THEN fail("invalid seat format")
                  ELSE IF ~is_valid_index(idx[1], idx[2])
                       THEN fail("seat out of range")
                  ELSE IF s[idx[1]][idx[2]] = "X" \/ is_seat_taken(ps, seat_input)
                       THEN fail("seat already booked")
                  ELSE [result |-> "ok",
                        seats |-> [s EXCEPT ![idx[1]][idx[2]] = "X"],
                        passengers |->
                          Append(ps, Passenger(name, seat_input, flight_code))]

\* list[i] of Python: 0-based, a negative index counts from the end
PyIndex(list, i) == IF i < 0 THEN list[Len(list) + i + 1] ELSE list[i + 1]

\* variant: 0 passes the range check
selection_in_range_from_zero(choice, n) == ~(choice < 0 \/ choice > n)

\* the range check on the selection: not (choice < 1 or choice > len(matches))
selection_in_range(choice, n) == ~(choice < 1 \/ choice > n)

\* variant: the selection counts from the end of the matches, matches[-choice]
selected_match_from_end(matches, choice) ==
  IF Len(matches) > 1 THEN PyIndex(matches, 0 - choice)
  ELSE PyIndex(matches, 0)

\* target_index: matches[choice - 1] when several names match, else matches[0]
selected_match(matches, choice) ==
  IF Len(matches) > 1 THEN PyIndex(matches, choice - 1)
  ELSE PyIndex(matches, 0)

\* list.pop(i), 1-based
Pop(ps, i) == SubSeq(ps, 1, i - 1) \o SubSeq(ps, i + 1, Len(ps))

\* cancel_booking: the outcome of one call with the answers typed at the
\* prompts; the selection is asked for only when several names match
cancel_booking(s, ps, name_in, choice_in) ==
  LET name == Strip(name_in)
      matches == find_passenger_by_exact_name(ps, name)
      choice == ParseInt(choice_in)
      fail(why) == [result |-> why, seats |-> s, passengers |-> ps, target |-> 0]
  IN  IF name = <<>> THEN fail("empty name")
      ELSE IF matches = <<>> THEN fail("not found")
      ELSE IF Len(matches) > 1 /\ ~choice.ok THEN fail("invalid input")
      ELSE IF Len(matches) > 1 /\ ~selection_in_range(choice.val, Len(matches))
           THEN fail("invalid selection")
      ELSE
        LET target_index == selected_match(matches, choice.val)
            target == ps[target_index]
            seat_idx == seat_to_index(target.seat_number)
        IN  [result |-> "ok",
             seats |-> IF seat_idx # None /\ is_valid_index(seat_idx[1], seat_idx[2])
                       THEN [s EXCEPT ![seat_idx[1]][seat_idx[2]] = "O"]
                       ELSE s,
             passengers |-> Pop(ps, target_index),
             target |-> target_index]

(***************************************************************************)
(* File handling.  The file is a sequence of lines (without their line     *)
(* breaks) when it exists.                                                 *)
(***************************************************************************)
NoFile == [exists |-> FALSE, lines |-> <<>>]

\* save_bookings: one line per passenger, in list order
save_bookings(ps) ==
  [exists |-> TRUE, lines |-> [i \in 1..Len(ps) |-> to_line(ps[i])]]

\* variant: the bounds check guards only the marking of the seat; the record
\* is appended all the same
RECURSIVE LoadFromKeepingOutOfRange(_, _, _, _)
LoadFromKeepingOutOfRange(lines, i, s, loaded) ==
  IF i > Len(lines) THEN [seats |-> s, passengers |-> loaded]
  ELSE
    LET line == lines[i]
        p == from_line(line)
        idx == seat_to_index(p.seat_number)
    IN  IF Strip(line) = <<>> \/ p = NoPassenger
        THEN LoadFromKeepingOutOfRange(lines, i + 1, s, loaded)
        ELSE IF idx = None
             THEN LoadFromKeepingOutOfRange(lines, i + 1, s, loaded)
        ELSE LoadFromKeepingOutOfRange(
               lines, i + 1,
               IF is_valid_index(idx[1], idx[2])
               THEN [s EXCEPT ![idx[1]][idx[2]] = "X"] ELSE s,
               Append(loaded, p))

\* the read loop of load_bookings from line i on
RECURSIVE LoadFrom(_, _, _, _)
LoadFrom(lines, i, s, loaded) ==
  IF i > Len(lines) THEN [seats |-> s, passengers |-> loaded]
  ELSE
    LET line == lines[i]
        p == from_line(line)
        idx == seat_to_index(p.seat_number)
    IN  IF Strip(line) = <<>> THEN LoadFrom(lines, i + 1, s, loaded)
        ELSE IF p = NoPassenger THEN LoadFrom(lines, i + 1, s, loaded)
        ELSE IF idx = None THEN LoadFrom(lines, i + 1, s, loaded)
        ELSE IF ~is_valid_index(idx[1], idx[2])
             THEN LoadFrom(lines, i + 1, s, loaded)
        ELSE LoadFrom(lines, i + 1,
                      [s EXCEPT ![idx[1]][idx[2]] = "X"], Append(loaded, p))

\* variant: no reset of the seat map; a record whose seat is already marked
\* is skipped
RECURSIVE LoadFromSkippingBooked(_, _, _, _)
LoadFromSkippingBooked(lines, i, s, loaded) ==
  IF i > Len(lines) THEN [seats |-> s, passengers |-> loaded]
  ELSE
    LET line == lines[i]
        p == from_line(line)
        idx == seat_to_index(p.seat_number)
    IN  IF Strip(line) = <<>> \/ p = NoPassenger
        THEN LoadFromSkippingBooked(lines, i + 1, s, loaded)
        ELSE IF idx = None \/ ~is_valid_index(idx[1], idx[2])
             THEN LoadFromSkippingBooked(lines, i + 1, s, loaded)
        ELSE IF s[idx[1]][idx[2]] = "X"
             THEN LoadFromSkippingBooked(lines, i + 1, s, loaded)
        ELSE LoadFromSkippingBooked(lines, i + 1,
                                    [s EXCEPT ![idx[1]][idx[2]] = "X"],
                                    Append(loaded, p))

load_bookings_skipping_booked(s, f) ==
  IF ~f.exists THEN [seats |-> s, passengers |-> <<>>]
  ELSE LoadFromSkippingBooked(f.lines, 1, s, <<>>)

\* variant: the seat map is not reset before the file is read
load_bookings_without_reset(s, f) ==
  IF ~f.exists THEN [seats |-> s, passengers |-> <<>>]
  ELSE LoadFrom(f.lines, 1, s, <<>>)

\* variant: the seat map is reset even when there is no file
load_bookings_reset_without_file(s, f) ==
  IF ~f.exists THEN [seats |-> init_seats, passengers |-> <<>>]
  ELSE LoadFrom(f.lines, 1, init_seats, <<>>)

\* load_bookings: the seat map after the call and the list it returns
load_bookings(s, f) ==
  IF ~f.exists THEN [seats |-> s, passengers |-> <<>>]
  ELSE LoadFrom(f.lines, 1, init_seats, <<>>)

(***************************************************************************)
(* What is typed at the prompts, and the bookings files a session may      *)
(* start with.                                                             *)
(***************************************************************************)
\* "Enter passenger name: " of book_ticket
BookNames ==
  {<<>>,
   <<" ", "A", "l", " ">>,
   <<"A", ",", "l", "i">>}

\* "Enter flight code: "
FlightCodes ==
  {<<>>,
   <<" ", "M", "1", " ">>}

\* "Choose seat ... Type 'AUTO' to assign automatically: "
SeatChoices ==
  {<<"A", "U", "T", "O">>,
   <<" ", "a", "u", "t", "o", " ">>,
   <<"1", "A">>,
   <<" ", "1", "b", " ">>,
   <<"0", "1", "A">>,
   <<"0", "A">>,
   <<"1", "A", "B">>,
   <<"6", "A">>,
   <<"1", "G">>,
   <<"A", "1">>,
   <<>>}

\* "Enter passenger name to cancel: "
CancelNames ==
  {<<>>,
   <<" ", "A", "L", " ">>,
   <<"A">>,
   <<"B", "o">>}

\* "Select number: "
Selections ==
  {<<"1">>,
   <<" ", "2">>,
   <<"3">>,
   <<"0">>,
   <<"x">>}

\* valid records of two passengers whose names differ only in case and
\* padding, among lines that load_bookings skips
MixedFile ==
  [exists |-> TRUE,
   lines |-> <<<<"A", "l", ",", "1", "A", ",", "M", "1">>,
               <<"X", ",", ",", "Y">>,
               <<" ", "a", "l", " ", ",", " ", "1", "b", " ", ",", "M", "1", " ">>,
               <<>>,
               <<"B", "o", ",", "6", "A", ",", "M", "1">>,
               <<"B", "o", ",", "0", "A", ",", "M", "1">>,
               <<"B", "o", ",", "A", "1", ",", "M", "1">>,
               <<"A", "l", ",", "2", "A", ",", "M", "1", ",", "x">>>>]

\* two records on the same seat
SharedSeatFile ==
  [exists |-> TRUE,
   lines |-> <<<<"A", "l", ",", "1", "A", ",", "M", "1">>,
               <<"B", "o", ",", "1", "A", ",", "M", "1">>>>]

\* one record per seat of the aircraft
FullFile ==
  [exists |-> TRUE,
   lines |-> [k \in 1..(NumRows * NumCols) |->
                to_line(Passenger(<<"A", "l">>,
                                  index_to_seat((k - 1) \div NumCols,
                                                (k - 1) % NumCols),
                                  <<"M", "1">>))]]

InitialFiles == {NoFile, MixedFile, SharedSeatFile, FullFile}

(***************************************************************************)
(* The session: main's loop.  `last` records the operation just performed, *)
(* its outcome and the answers that were read at its prompts.              *)
(***************************************************************************)
NotRead == <<"(not read)">>

\* op, result: the operation just performed and its outcome; prev: the
\* operation before it; target: the list index cancel_booking removed (0 if
\* none); the rest: the answers read at the prompts
Done(op, result, seat_choice, name, selection, target) ==
  [op |-> op, result |-> result, prev |-> last.op,
   seat_choice |-> seat_choice, name |-> name, selection |-> selection,
   target |-> target]

Init ==
  /\ seats = init_seats
  /\ passengers = <<>>
  /\ file \in InitialFiles
  /\ last = [op |-> "start", result |-> "ok", prev |-> "start",
             seat_choice |-> NotRead, name |-> NotRead, selection |-> NotRead,
             target |-> 0]
  /\ nops = 0

\* the seat prompt of book_ticket is reached after these checks
SeatPromptShown(result) ==
  result \notin {"empty name", "empty flight code"}
  /\ ~(result = "no seats available" /\ recursive_count_available(seats, 0, 0) = 0)

\* menu choice 1
Book ==
  /\ nops < MaxOps
  /\ \E name \in BookNames, flight \in FlightCodes, choice \in SeatChoices :
       LET out == book_ticket(seats, passengers, name, flight, choice)
       IN  /\ seats' = out.seats
           /\ passengers' = out.passengers
           /\ last' = Done("book", out.result,
                           IF SeatPromptShown(out.result) THEN choice ELSE NotRead,
                           NotRead, NotRead, 0)
  /\ nops' = nops + 1
  /\ UNCHANGED file

\* menu choice 3
Cancel ==
  /\ nops < MaxOps
  /\ \E name \in CancelNames, selection \in Selections :
       LET out == cancel_booking(seats, passengers, name, selection)
           asked == Len(find_passenger_by_exact_name(passengers, name)) > 1
                    /\ Strip(name) # <<>>
       IN  /\ seats' = out.seats
           /\ passengers' = out.passengers
           /\ last' = Done("cancel", out.result, NotRead, name,
                           IF asked THEN selection ELSE NotRead,
                           out.target)
  /\ nops' = nops + 1
  /\ UNCHANGED file

\* menu choice 5
Save ==
  /\ nops < MaxOps
  /\ file' = save_bookings(passengers)
  /\ last' = Done("save", "ok", NotRead, NotRead, NotRead, 0)
  /\ nops' = nops + 1
  /\ UNCHANGED <<seats, passengers>>

\* menu choice 6: passengers = load_bookings(seats)
Load ==
  /\ nops < MaxOps
  /\ LET out == load_bookings(seats, file)
     IN  /\ seats' = out.seats
         /\ passengers' = out.passengers
  /\ last' = Done("load", IF file.exists THEN "ok" ELSE "no file",
                  NotRead, NotRead, NotRead, 0)
  /\ nops' = nops + 1
  /\ UNCHANGED file

Next == Book \/ Cancel \/ Save \/ Load

Spec == Init /\ [][Next]_vars

(***************************************************************************)
(* Properties.                                                             *)
(***************************************************************************)
Cells == RowIdx \X ColIdx

\* the coordinate a passenger's seat label resolves to (None if it does not)
SeatOf(p) == seat_to_index(p.seat_number)

\* the list entries whose seat label resolves to the cell
Occupants(ps, cell) == {i \in 1..Len(ps) : SeatOf(ps[i]) = cell}

Booked(s, cell) == s[cell[1]][cell[2]] = "X"

count_available(s) == recursive_count_available(s, 0, 0)

BookSucceeded == last.op = "book" /\ last.result = "ok"

\* C1: at all times a cell is BOOKED iff exactly one passenger's seat label
\* resolves to it, and no two passengers occupy the same seat.
C1_BookedIffOnePassenger ==
  \A cell \in Cells :
    /\ Booked(seats, cell) <=> Cardinality(Occupants(passengers, cell)) = 1
    /\ Cardinality(Occupants(passengers, cell)) <= 1

\* C2: a book attempt that ends in an error leaves the seat map and the
\* passenger list exactly as they were.
C2_FailedBookChangesNothing ==
  [][(last'.op = "book" /\ last'.result # "ok")
       => (seats' = seats /\ passengers' = passengers)]_vars

C2_Witness ==
  /\ last.op = "book"
  /\ last.result = "seat already booked"
  /\ passengers # <<>>

\* C3: after a successful book the booked cell is BOOKED, the appended (last)
\* entry is the only one that refers to that seat, and every other cell and
\* every earlier entry is unchanged.
C3_SuccessfulBookFrame ==
  [][(last'.op = "book" /\ last'.result = "ok")
       => LET n == Len(passengers')
              cell == SeatOf(passengers'[n])
          IN  /\ n = Len(passengers) + 1
              /\ SubSeq(passengers', 1, n - 1) = passengers
              /\ cell \in Cells
              /\ Booked(seats', cell)
              /\ Occupants(passengers', cell) = {n}
              /\ \A other \in Cells \ {cell} :
                   Booked(seats', other) <=> Booked(seats, other)]_vars

\* C4: after a successful cancel the cancelled passenger's cell is AVAILABLE
\* and no remaining entry refers to that seat.
C4_CancelFreesSeat ==
  [][(last'.op = "cancel" /\ last'.result = "ok")
       => LET cell == SeatOf(passengers[last'.target])
          IN  /\ cell \in Cells
              /\ ~Booked(seats', cell)
              /\ Occupants(passengers', cell) = {}]_vars

\* C5: a successful book lowers count_available by exactly 1, a failed book
\* leaves it unchanged, a successful cancel raises it by exactly 1.
C5_CountChanges ==
  [][/\ (last'.op = "book" /\ last'.result = "ok")
          => count_available(seats') = count_available(seats) - 1
     /\ (last'.op = "book" /\ last'.result # "ok")
          => count_available(seats') = count_available(seats)
     /\ (last'.op = "cancel" /\ last'.result = "ok")
          => count_available(seats') = count_available(seats) + 1]_vars

HasComma(str) == \E i \in 1..Len(str) : str[i] = ","

CommaFree(ps) ==
  \A i \in 1..Len(ps) :
    ~HasComma(ps[i].name) /\ ~HasComma(ps[i].seat_number)
    /\ ~HasComma(ps[i].flight_code)

\* C6: when no field of the passenger list contains a comma, save followed
\* by load gives back the same list (same records, same order) and a seat
\* map where exactly the seats of those records are BOOKED.
C6_SaveLoadRoundTrip ==
  [][(last.op = "save" /\ last'.op = "load" /\ CommaFree(passengers))
       => /\ passengers' = passengers
          /\ \A cell \in Cells :
               Booked(seats', cell) <=> Occupants(passengers, cell) # {}]_vars

C6_Witness ==
  /\ last.op = "load"
  /\ last.prev = "save"
  /\ passengers # <<>>
  /\ CommaFree(passengers)
  /\ file = save_bookings(passengers)

\* C7: a second load right after a load changes neither the seat map nor the
\* passenger list, whether or not the file exists.
C7_LoadIdempotent ==
  [][(last.op = "load" /\ last'.op = "load")
       => (seats' = seats /\ passengers' = passengers)]_vars

C7_Witness ==
  /\ last.op = "load"
  /\ last.prev = "load"
  /\ passengers # <<>>

\* the fields of a line: split on commas after trimming, each part trimmed
Fields(line) ==
  LET raw == Split(Strip(line))
  IN  [i \in 1..Len(raw) |-> Strip(raw[i])]

\* a line whose record load keeps: three non-empty fields and a seat label
\* that resolves to a cell of the seat map
Survives(line) ==
  /\ Len(Fields(line)) = 3
  /\ \A i \in 1..3 : Fields(line)[i] # <<>>
  /\ seat_to_index(Fields(line)[2]) \in Cells

Surviving(lines) ==
  LET kept == SelectSeq(lines, Survives)
  IN  [i \in 1..Len(kept) |->
         Passenger(Fields(kept[i])[1], Fields(kept[i])[2], Fields(kept[i])[3])]

\* C8: when the file exists, load returns exactly the surviving records in
\* file order, and afterwards exactly their cells are BOOKED, whatever the
\* seat map was before.
C8_LoadKeepsSurvivors ==
  [][(last'.op = "load" /\ file.exists)
       => /\ passengers' = Surviving(file.lines)
          /\ \A cell \in Cells :
               Booked(seats', cell) <=> Occupants(passengers', cell) # {}]_vars

C8_Witness ==
  /\ last.op = "load"
  /\ last.result = "ok"
  /\ file = MixedFile
  /\ last.prev = "book"
  /\ Len(passengers) = 2

\* C9: when the file does not exist, load returns an empty list and leaves
\* every cell as it was.
C9_LoadWithoutFile ==
  [][(last'.op = "load" /\ ~file.exists)
       => (passengers' = <<>> /\ seats' = seats)]_vars

C9_Witness ==
  /\ last.op = "load"
  /\ last.result = "no file"
  /\ passengers = <<>>
  /\ seats # init_seats

\* the first AVAILABLE cell in row-major order
FirstAvailable(s) ==
  CHOOSE cell \in Cells :
    /\ ~Booked(s, cell)
    /\ \A other \in Cells :
         ~Booked(s, other)
           => (cell[1] < other[1]
               \/ (cell[1] = other[1] /\ cell[2] <= other[2]))

TypedAuto(choice) == Lower(Strip(choice)) = <<"a", "u", "t", "o">>

\* C10: a successful book with seat choice AUTO, in any letter case, books
\* the first cell that was AVAILABLE in row-major order.
C10_AutoBooksFirstAvailable ==
  [][(last'.op = "book" /\ last'.result = "ok" /\ TypedAuto(last'.seat_choice))
       => LET cell == FirstAvailable(seats)
          IN  /\ seats' = [seats EXCEPT ![cell[1]][cell[2]] = "X"]
              /\ SeatOf(passengers'[Len(passengers')]) = cell]_vars

C10_Witness ==
  /\ BookSucceeded
  /\ TypedAuto(last.seat_choice)
  /\ last.seat_choice # AUTO
  /\ SeatOf(passengers[Len(passengers)]) = <<0, 1>>
  /\ ~Booked(seats, <<1, 0>>)

NoCellAvailable(s) == \A cell \in Cells : Booked(s, cell)

\* C11: when no cell is AVAILABLE, a book with non-empty name and flight code
\* fails with "no seats available" whatever is given as seat choice (AUTO, a
\* malformed label, an out-of-range label, a booked label).
C11_FullGridRejectsEveryChoice ==
  NoCellAvailable(seats)
    => \A name \in BookNames, flight \in FlightCodes, choice \in SeatChoices :
         (Strip(name) # <<>> /\ Strip(flight) # <<>>)
           => book_ticket(seats, passengers, name, flight, choice).result
                = "no seats available"

C11_Witness ==
  /\ NoCellAvailable(seats)
  /\ last.op = "book"
  /\ last.result = "no seats available"
  /\ last.prev = "load"

\* labels with row number 0 or with two trailing letters
RowZeroOrTwoLetters == {<<"0", "A">>, <<"1", "A", "B">>}

\* C12: a book whose seat choice has row number 0 ("0A") or more than one
\* trailing letter ("1AB") fails with "invalid seat format" whenever the
\* seat map still has an available seat.
C12_RowZeroIsInvalidFormat ==
  (last.op = "book" /\ last.seat_choice \in RowZeroOrTwoLetters)
    => last.result = "invalid seat format"

\* C13: after a successful book the seat label stored in the appended record
\* is the canonical label of the resolved coordinate,
\* index_to_seat(seat_to_index(seat choice)).
C13_StoredLabelIsCanonical ==
  BookSucceeded
    => LET stored == passengers[Len(passengers)].seat_number
           idx == seat_to_index(stored)
       IN  stored = index_to_seat(idx[1], idx[2])

\* the entries whose trimmed name equals the trimmed input, ignoring case
ExactMatchSet(ps, name) ==
  {i \in 1..Len(ps) : Lower(Strip(ps[i].name)) = Lower(Strip(name))}

\* the selection is not a number or lies outside 1..n
BadSelection(selection, n) ==
  ~ParseInt(selection).ok \/ ParseInt(selection).val \notin 1..n

\* the two outcomes of a refused selection: "Invalid selection." (out of
\* range) and "Invalid input. Cancellation aborted." (not a number)
SelectionErrors == {"invalid selection", "invalid input"}

\* C14: when cancel finds more than one exact match and the selection is not
\* a number or lies outside 1..(match count), cancel fails with a selection
\* error and neither the seat map nor the passenger list changes.
C14_BadSelectionChangesNothing ==
  [][(/\ last'.op = "cancel"
      /\ Strip(last'.name) # <<>>
      /\ Cardinality(ExactMatchSet(passengers, last'.name)) > 1
      /\ BadSelection(last'.selection,
                      Cardinality(ExactMatchSet(passengers, last'.name))))
       => /\ last'.result \in SelectionErrors
          /\ seats' = seats
          /\ passengers' = passengers]_vars

C14_Witness ==
  /\ last.op = "cancel"
  /\ last.result = "invalid selection"
  /\ last.selection = <<"3">>
  /\ Cardinality(ExactMatchSet(passengers, last.name)) = 2

\* `after` is `before` without its entry t, the others in the same order
RemovedAt(before, after, t) ==
  /\ Len(after) = Len(before) - 1
  /\ \A j \in 1..Len(after) : after[j] = before[IF j < t THEN j ELSE j + 1]

\* C15: a cancel either changes nothing (failure) or removes exactly the
\* selected entry (the k-th exact match in list order for selection k, the
\* only match otherwise), keeps the order of the others and changes no cell
\* other than that entry's seat.
C15_CancelRemovesSelectedEntry ==
  [][last'.op = "cancel"
       => \/ /\ last'.result # "ok"
             /\ seats' = seats
             /\ passengers' = passengers
          \/ /\ last'.result = "ok"
             /\ LET M == ExactMatchSet(passengers, last'.name)
                    k == IF Cardinality(M) > 1
                         THEN ParseInt(last'.selection).val ELSE 1
                IN  \E t \in M :
                      /\ Cardinality({j \in M : j <= t}) = k
                      /\ RemovedAt(passengers, passengers', t)
                      /\ \A cell \in Cells \ {SeatOf(passengers[t])} :
                           Booked(seats', cell) <=> Booked(seats, cell)]_vars

C15_Witness ==
  /\ last.op = "cancel"
  /\ last.result = "ok"
  /\ last.selection = <<"1">>
  /\ last.target = 1
  /\ Len(passengers) = 1

\* C16: a cancel with a non-empty name for which no entry matches exactly
\* (trimmed, ignoring case) fails with "not found" and changes nothing, also
\* when the name is a proper substring of names in the list.
C16_CancelNeedsExactMatch ==
  [][(/\ last'.op = "cancel"
      /\ Strip(last'.name) # <<>>
      /\ ExactMatchSet(passengers, last'.name) = {})
       => /\ last'.result = "not found"
          /\ seats' = seats
          /\ passengers' = passengers]_vars

C16_Witness ==
  /\ last.op = "cancel"
  /\ last.result = "not found"
  /\ \E i \in 1..Len(passengers) :
       /\ Contains(Lower(passengers[i].name), Lower(Strip(last.name)))
       /\ Len(passengers[i].name) > Len(Strip(last.name))

\* C17: whenever count_available is greater than 0, a book with non-empty
\* name, non-empty flight code and seat choice AUTO succeeds.
C17_AutoSucceedsWhenSeatsLeft ==
  (last.op = "book" /\ TypedAuto(last.seat_choice)) => last.result = "ok"

\* C18: every passenger's seat label resolves to a coordinate inside the
\* seat map, so cancel_booking always finds a cell to free.
C18_RosterSeatsInsideGrid ==
  \A i \in 1..Len(passengers) : SeatOf(passengers[i]) \in Cells

C18_Witness ==
  /\ last.op = "cancel"
  /\ last.result = "ok"
  /\ last.prev = "load"
  /\ file = MixedFile
  /\ passengers # <<>>

\* a session without load and save
NextBookCancel == Book \/ Cancel

SpecBookCancel == Init /\ [][NextBookCancel]_vars

\* C19: with book and cancel only, the BOOKED cells are exactly the cells the
\* passengers refer to, no two passengers refer to the same cell, and
\* count_available is rows * cols minus the number of passengers.
C19_GridMatchesRoster ==
  /\ \A cell \in Cells :
       /\ Booked(seats, cell) <=> Occupants(passengers, cell) # {}
       /\ Cardinality(Occupants(passengers, cell)) <= 1
  /\ count_available(seats) = NumRows * NumCols - Len(passengers)

C19_Witness ==
  /\ last.op = "cancel"
  /\ last.result = "ok"
  /\ last.prev = "book"
  /\ Len(passengers) = 1
  /\ count_available(seats) = NumRows * NumCols - 1

====
